---- MODULE Spec2Model ----
(***************************************************************************)
(* State-machine model of seqan/hts_io/hts_file.h: the HtsFile object      *)
(* (HtsFileIn / HtsFileOut), its free functions, and the htslib codec it   *)
(* drives.  Two objects are constructed empty: "file", an HtsFileIn or an  *)
(* HtsFileOut, and "other", an HtsFileIn.  Every action is one call of one *)
(* function of the header, taken as a whole.                               *)
(*                                                                         *)
(* Pointers are object ids (0 is nullptr) into `heap`.  An object nobody   *)
(* points to any more is dropped from the heap; if it was still allocated  *)
(* it is reported in `leaks`.  A call that hands the codec a null or a     *)
(* released pointer it dereferences has undefined behaviour: the run is    *)
(* not followed past it (proc = "crashed").  SEQAN_FAIL ends the process   *)
(* with proc = "aborted".                                                  *)
(***************************************************************************)
EXTENDS Integers, Sequences, FiniteSets, TLC

VARIABLES
    filename,    \* HtsFile::filename, per object
    fp,          \* HtsFile::fp
    hdr,         \* HtsFile::hdr
    hts_record,  \* HtsFile::hts_record
    hts_index,   \* HtsFile::hts_index
    hts_iter,    \* HtsFile::hts_iter
    file_mode,   \* HtsFile::file_mode
    at_end,      \* HtsFile::at_end
    lifetime,    \* per object: "constructed" or "destroyed"
    heap,        \* object id -> the object it names
    leaks,       \* the kinds of the objects the last call left allocated and unreferenced
    disk,        \* resource name -> the resource on disk
    idxfiles,    \* index file name -> the resource it was built from
    proc,        \* "running", "aborted" (SEQAN_FAIL) or "crashed" (undefined behaviour)
    last,        \* the last call: its name, object, result and effects
    sent,        \* per object: the records writeRecord was asked to write since open, with the codec's status
    region       \* per object: what readRegion has delivered since the last setRegion

vars == <<filename, fp, hdr, hts_record, hts_index, hts_iter, file_mode, at_end,
          lifetime, heap, leaks, disk, idxfiles, proc, last, sent, region>>

----------------------------------------------------------------------------
(* Bounds of the exploration *)

\* number of reference sequences in the header dictionary
NRefs == 2
\* length of each reference sequence
RefLen == 2
\* largest number of entries of the input resource
MaxRecs == 2
\* largest number of records written to the output resource
MaxWrites == 2

----------------------------------------------------------------------------
(* The objects and the names *)

Files == {"file", "other"}

\* the mode literal each class hands to HtsFile(const char * mode)
Classes == {"HtsFileIn", "HtsFileOut"}
ClassMode(c) == IF c = "HtsFileIn" THEN "r" ELSE "wb"

\* the literal open() compares file_mode with
read_mode == "r"

nullptr == 0
Kinds == {"fp", "hdr", "rec", "idx", "itr"}
\* An object is named by the first member that points to it: members 1..5 are
\* those of "file", 6..10 those of "other", in the order of their declaration.
KindNo(k) == CASE k = "fp" -> 1 [] k = "hdr" -> 2 [] k = "rec" -> 3
               [] k = "idx" -> 4 [] k = "itr" -> 5
SlotOf(f, k) == (IF f = "file" THEN 0 ELSE Cardinality(Kinds)) + KindNo(k)
NSlots == Cardinality(Files) * Cardinality(Kinds)
ObjIds == 1..NSlots
\* the names objects have while a call that allocates them is running
TmpIds == (NSlots + 1)..(NSlots + 3)

DefaultName == ""
InName == "a.bam"
OutName == "o.bam"
Missing == "missing.bam"
Names == {DefaultName, InName, OutName, Missing}

IdxOf(n) == <<n, "bai">>
AltIdx == <<"alt", "bai">>
IdxNames == {IdxOf(n) : n \in Names} \cup {AltIdx}
NoRes == ""

\* INT_MAX
IntMax == 2^30 + (2^30 - 1)

----------------------------------------------------------------------------
(* Records and resources *)

\* a decodable alignment on reference t covering [p, e)
Rec(t, p, e) == [ok |-> TRUE, tid |-> t, pos |-> p, end |-> e]
\* a malformed entry of a resource: the codec fails on it and moves on
BadItem == [ok |-> FALSE, tid |-> -1, pos |-> 0, end |-> 0]
\* the zeroed buffer bam_init1 returns
BlankRec == [ok |-> TRUE, tid |-> 0, pos |-> 0, end |-> 0]

Refs == 0..(NRefs - 1)
Intervals == {pe \in (0..(RefLen - 1)) \X (1..RefLen) : pe[1] < pe[2]}

\* coordinate order of a BAM file: by reference, then by start
Before(a, b) == a.tid < b.tid \/ (a.tid = b.tid /\ a.pos <= b.pos)
Sorted(s) == \A i \in 1..Len(s) : \A j \in 1..Len(s) : i < j => Before(s[i], s[j])
AllOk(s) == \A i \in 1..Len(s) : s[i].ok

SeqsUpTo(S, n) == UNION {[1..k -> S] : k \in 0..n}

NoFile == [exists |-> FALSE, hdr |-> "none", items |-> <<>>]
Resource(h, s) == [exists |-> TRUE, hdr |-> h, items |-> s]

----------------------------------------------------------------------------
(* The heap *)

FreeObj == [kind |-> "free"]
NewFp(n, m) == [kind |-> "fp", live |-> TRUE, name |-> n, mode |-> m, pos |-> 0,
                whdr |-> FALSE, wbuf |-> <<>>]
NewHdr == [kind |-> "hdr", live |-> TRUE, n_targets |-> NRefs]
NewRec(d) == [kind |-> "rec", live |-> TRUE, data |-> d]
NewIdx(n) == [kind |-> "idx", live |-> TRUE, of |-> n]
NewItr(n, t, b, e, fin) == [kind |-> "itr", live |-> TRUE, of |-> n, tid |-> t,
                            beg |-> b, end |-> e, started |-> FALSE, finished |-> fin]

\* the heap as a call sees it, with room for what the call allocates
Ext(h) == [i \in ObjIds \cup TmpIds |-> IF i \in ObjIds THEN h[i] ELSE FreeObj]
\* the name a fresh allocation gets
Alloc(h) == CHOOSE i \in TmpIds : h[i].kind = "free" /\ \A j \in TmpIds : j < i => h[j].kind # "free"

\* free(p): the object stays in the heap, released, while something points to it
Release(h, p) == [h EXCEPT ![p].live = FALSE]

IsLive(h, p) == p # nullptr /\ h[p].kind # "free" /\ h[p].live

\* The end of every call: the pointers take their new values, objects nothing
\* points to any more leave the heap, and those never released are leaks.
Commit(h, nfp, nhdr, nrec, nidx, nitr) ==
    LET ptr(f, k) == CASE k = "fp" -> nfp[f] [] k = "hdr" -> nhdr[f] [] k = "rec" -> nrec[f]
                       [] k = "idx" -> nidx[f] [] k = "itr" -> nitr[f]
        FK == Files \X Kinds
        refd == {ptr(fk[1], fk[2]) : fk \in FK}
        lost == {i \in DOMAIN h : h[i].kind # "free" /\ i \notin refd}
        name(q) == IF q = nullptr THEN nullptr
                   ELSE LET at == {SlotOf(fk[1], fk[2]) : fk \in {x \in FK : ptr(x[1], x[2]) = q}}
                        IN  CHOOSE i \in at : \A j \in at : i <= j
        owner(i) == CHOOSE fk \in FK : SlotOf(fk[1], fk[2]) = i
        held(i) == LET q == ptr(owner(i)[1], owner(i)[2])
                   IN  IF q # nullptr /\ name(q) = i THEN h[q] ELSE FreeObj
    IN  /\ heap' = [i \in ObjIds |-> held(i)]
        /\ leaks' = {h[i].kind : i \in {j \in lost : h[j].live}}
        /\ fp' = [f \in Files |-> name(nfp[f])]
        /\ hdr' = [f \in Files |-> name(nhdr[f])]
        /\ hts_record' = [f \in Files |-> name(nrec[f])]
        /\ hts_index' = [f \in Files |-> name(nidx[f])]
        /\ hts_iter' = [f \in Files |-> name(nitr[f])]

\* a call that touches no pointer and no object
SameHeap ==
    /\ leaks' = {}
    /\ UNCHANGED <<heap, fp, hdr, hts_record, hts_index, hts_iter>>

----------------------------------------------------------------------------
(* The record of the last call *)

NoSRec == [rID |-> -1, beginPos |-> -1, endPos |-> -1]
Call(op, f, ret, status, rec, released) ==
    [op |-> op, f |-> f, ret |-> ret, status |-> status, rec |-> rec,
     released |-> released]

NoReq == [form |-> "none", tid |-> -1, start |-> 0, end |-> 0]
NoRegion == [set |-> FALSE, pure |-> FALSE, done |-> FALSE, n |-> 0, req |-> NoReq]

Running(f) == proc = "running" /\ lifetime[f] = "constructed"

----------------------------------------------------------------------------
(* The codec: opening and closing a stream, the header *)

\* hts_open(filename, mode): [ok, disk].  Reading needs an existing resource;
\* writing creates or truncates the resource, and fails on an unwritable path.
hts_open(d, n, m) ==
    IF m = "r"
    THEN [ok |-> d[n].exists, disk |-> d]
    ELSE IF n = Missing
         THEN [ok |-> FALSE, disk |-> d]
         ELSE [ok |-> TRUE, disk |-> [d EXCEPT ![n] = Resource("none", <<>>)]]

\* sam_hdr_read(fp): a header, or NULL when the header block cannot be read
sam_hdr_read(d, n) == d[n].hdr = "ok"

\* hts_close(fp) on a stream: a write stream's buffered header and records
\* reach the resource
hts_close(d, s) ==
    IF s.mode = "r" THEN d
    ELSE [d EXCEPT ![s.name] = Resource(IF s.whdr THEN "ok" ELSE "none", s.wbuf)]

----------------------------------------------------------------------------
(* HtsFile::open and the destructor *)

\* the variant the source keeps commented out: `return false;` in place of
\* SEQAN_FAIL
OpenReturnsFalse(f) ==
    /\ proc' = proc
    /\ last' = Call("open", f, FALSE, 0, NoSRec, <<>>)

\* if (fp == nullptr) SEQAN_FAIL(...): the process ends, nothing is returned
OpenFailed(f) ==
    /\ proc' = "aborted"
    /\ last' = Call("open", f, FALSE, 0, NoSRec, <<>>)

\* open(HtsFile & target, const char * f): target.filename = f; target.open()
open(f, n) ==
    /\ Running(f)
    /\ filename' = [filename EXCEPT ![f] = n]
    /\ LET o == hts_open(disk, n, file_mode[f]) IN
       IF ~o.ok
       THEN /\ fp' = [fp EXCEPT ![f] = nullptr]
            /\ OpenFailed(f)
            /\ leaks' = {}
            /\ UNCHANGED <<hdr, hts_record, hts_index, hts_iter, heap, disk, sent>>
       ELSE LET i1 == Alloc(Ext(heap))
                h1 == [Ext(heap) EXCEPT ![i1] = NewFp(n, file_mode[f])]
                load == file_mode[f] = read_mode
                i2 == Alloc(h1)
                found == load /\ sam_hdr_read(o.disk, n)
                h2 == IF found THEN [h1 EXCEPT ![i2] = NewHdr] ELSE h1
                nhdr == IF load THEN (IF found THEN i2 ELSE nullptr) ELSE hdr[f]
                i3 == Alloc(h2)
                h3 == [h2 EXCEPT ![i3] = NewRec(BlankRec)]
            IN  /\ Commit(h3, [fp EXCEPT ![f] = i1], [hdr EXCEPT ![f] = nhdr],
                          [hts_record EXCEPT ![f] = i3], hts_index, hts_iter)
                /\ disk' = o.disk
                /\ proc' = proc
                /\ last' = Call("open", f, TRUE, 0, NoSRec, <<>>)
                /\ sent' = [sent EXCEPT ![f] = <<>>]
    /\ region' = [region EXCEPT ![f].pure = FALSE]
    /\ UNCHANGED <<file_mode, at_end, lifetime, idxfiles>>

\* a variant of the destructor that closes the stream first
CloseThenHeader(hdrRelease) == <<"fp">> \o hdrRelease

\* bam_hdr_destroy(hdr); hts_close(fp): the releases of a destructor that ran
\* to its end, in their order
HeaderThenClose(hdrRelease) == hdrRelease \o <<"fp">>

\* ~HtsFile(): bam_hdr_destroy(hdr); hts_close(fp)
HtsFile_dtor(f) ==
    /\ Running(f)
    /\ LET twice == hdr[f] # nullptr /\ ~IsLive(heap, hdr[f])
           h1 == IF hdr[f] # nullptr THEN Release(heap, hdr[f]) ELSE heap
           rel1 == IF hdr[f] # nullptr THEN <<"hdr">> ELSE <<>>
       IN
       IF twice \/ fp[f] = nullptr \/ ~IsLive(heap, fp[f])
       THEN \* a released header, or hts_close on a null or released stream
            /\ heap' = IF twice THEN heap ELSE h1
            /\ proc' = "crashed"
            /\ last' = Call("~HtsFile", f, FALSE, 0, NoSRec, IF twice THEN <<>> ELSE rel1)
            /\ leaks' = {}
            /\ UNCHANGED <<fp, hdr, hts_record, hts_index, hts_iter, disk, lifetime>>
       ELSE LET h2 == Release(h1, fp[f]) IN
            /\ Commit(h2, [fp EXCEPT ![f] = nullptr], [hdr EXCEPT ![f] = nullptr],
                      [hts_record EXCEPT ![f] = nullptr],
                      [hts_index EXCEPT ![f] = nullptr],
                      [hts_iter EXCEPT ![f] = nullptr])
            /\ disk' = hts_close(disk, heap[fp[f]])
            /\ lifetime' = [lifetime EXCEPT ![f] = "destroyed"]
            /\ proc' = proc
            /\ last' = Call("~HtsFile", f, TRUE, 0, NoSRec, HeaderThenClose(rel1))
    /\ UNCHANGED <<filename, file_mode, at_end, idxfiles, sent, region>>

----------------------------------------------------------------------------
(* copyHeader, copyRecord *)

\* a variant that copies the pointer: target.hdr = source.hdr
copyHeaderShallow(t, s) ==
    /\ Running(t) /\ Running(s) /\ t # s
    /\ Commit(heap, fp, [hdr EXCEPT ![t] = hdr[s]], hts_record, hts_index, hts_iter)
    /\ last' = Call("copyHeader", t, TRUE, 0, NoSRec, <<>>)
    /\ UNCHANGED <<filename, file_mode, at_end, lifetime, disk, idxfiles, proc,
                   sent, region>>

\* copyHeader(target, source): target.hdr = bam_hdr_dup(source.hdr);
\* bam_hdr_dup(NULL) is NULL
copyHeader(t, s) ==
    /\ Running(t) /\ Running(s) /\ t # s
    /\ LET i == Alloc(Ext(heap))
           dup == hdr[s] # nullptr
           h1 == IF dup THEN [Ext(heap) EXCEPT ![i] = [heap[hdr[s]] EXCEPT !.live = TRUE]]
                 ELSE heap
       IN  Commit(h1, fp, [hdr EXCEPT ![t] = IF dup THEN i ELSE nullptr],
                  hts_record, hts_index, hts_iter)
    /\ last' = Call("copyHeader", t, TRUE, 0, NoSRec, <<>>)
    /\ UNCHANGED <<filename, file_mode, at_end, lifetime, disk, idxfiles, proc,
                   sent, region>>

\* copyRecord(target, source): target.hts_record = bam_dup1(source.hts_record);
\* bam_dup1(NULL) is NULL
copyRecord(t, s) ==
    /\ Running(t) /\ Running(s) /\ t # s
    /\ LET i == Alloc(Ext(heap))
           dup == hts_record[s] # nullptr
           h1 == IF dup THEN [Ext(heap) EXCEPT ![i] = NewRec(heap[hts_record[s]].data)]
                 ELSE heap
       IN  Commit(h1, fp, hdr, [hts_record EXCEPT ![t] = IF dup THEN i ELSE nullptr],
                  hts_index, hts_iter)
    /\ last' = Call("copyRecord", t, TRUE, 0, NoSRec, <<>>)
    /\ UNCHANGED <<filename, file_mode, at_end, lifetime, disk, idxfiles, proc,
                   sent, region>>

----------------------------------------------------------------------------
(* The index *)

\* what ends a call that hands the codec a null pointer it dereferences
Crash(op, f) ==
    /\ proc' = "crashed"
    /\ last' = Call(op, f, FALSE, 0, NoSRec, <<>>)

\* sam_index_build(fn, min_shift) / sam_index_build2(fn, fnidx, min_shift):
\* 0 and an index file written, or a negative status.  The resource is opened by
\* name; it must hold a header and coordinate-sorted, decodable records.
sam_index_build(d, n) ==
    IF d[n].exists /\ d[n].hdr = "ok" /\ AllOk(d[n].items) /\ Sorted(d[n].items)
    THEN 0 ELSE -1

\* buildIndex(file, min_shift): !sam_index_build(file.filename, min_shift)
buildIndex(f, min_shift) ==
    /\ Running(f)
    /\ LET st == sam_index_build(disk, filename[f]) IN
       /\ idxfiles' = IF st = 0
                      THEN [idxfiles EXCEPT ![IdxOf(filename[f])] = filename[f]]
                      ELSE idxfiles
       /\ last' = Call("buildIndex", f, st = 0, st, NoSRec, <<>>)
    /\ SameHeap
    /\ UNCHANGED <<filename, file_mode, at_end, lifetime, disk, proc, sent, region>>

\* buildIndex(file, indexFileName, min_shift):
\* !sam_index_build2(file.filename, indexFileName, min_shift)
buildIndex2(f, indexFileName, min_shift) ==
    /\ Running(f)
    /\ LET st == sam_index_build(disk, filename[f]) IN
       /\ idxfiles' = IF st = 0
                      THEN [idxfiles EXCEPT ![indexFileName] = filename[f]]
                      ELSE idxfiles
       /\ last' = Call("buildIndex", f, st = 0, st, NoSRec, <<>>)
    /\ SameHeap
    /\ UNCHANGED <<filename, file_mode, at_end, lifetime, disk, proc, sent, region>>

\* loadIndex(file, indexFileName):
\* file.hts_index = sam_index_load2(file.fp, file.filename, indexFileName);
\* return file.hts_index != nullptr
loadIndex2(f, indexFileName) ==
    /\ Running(f)
    /\ IF fp[f] = nullptr
       THEN /\ Crash("loadIndex", f)
            /\ SameHeap
       ELSE LET i == Alloc(Ext(heap))
                found == idxfiles[indexFileName] # NoRes
                h1 == IF found THEN [Ext(heap) EXCEPT ![i] = NewIdx(idxfiles[indexFileName])]
                      ELSE heap
            IN  /\ Commit(h1, fp, hdr, hts_record,
                          [hts_index EXCEPT ![f] = IF found THEN i ELSE nullptr],
                          hts_iter)
                /\ proc' = proc
                /\ last' = Call("loadIndex", f, found, 0, NoSRec, <<>>)
    /\ UNCHANGED <<filename, file_mode, at_end, lifetime, disk, idxfiles, sent, region>>

\* loadIndex(file): file.hts_index = sam_index_load(file.fp, file.filename), the
\* index file being the conventional companion of the file's name
loadIndex(f) == loadIndex2(f, IdxOf(filename[f]))

----------------------------------------------------------------------------
(* Region strings: a string is a sequence of characters *)

Digits == <<"0", "1", "2", "3", "4", "5", "6", "7", "8", "9">>
DigitVal(c) == CHOOSE v \in 0..9 : Digits[v + 1] = c
IsDigit(c) == \E v \in 0..9 : Digits[v + 1] = c

\* printf's %d
RECURSIVE Dec(_)
Dec(n) ==
    IF n < 0 THEN <<"-">> \o Dec(-n)
    ELSE IF n < 10 THEN <<Digits[n + 1]>>
    ELSE Dec(n \div 10) \o <<Digits[(n % 10) + 1]>>

\* the name of reference t in the header dictionary: c1, c2, ...
RefName(t) == <<"c">> \o Dec(t + 1)
\* a name no header holds
NoSuchName == <<"c", "X">>

\* a variant that formats the end as the last position inside the interval
sprintf_inside(chromosome, start, end) ==
    chromosome \o <<":">> \o Dec(start) \o <<"-">> \o Dec(end - 1)

\* sprintf(region, "%s:%d-%d", chromosome, start, end)
sprintf_region(chromosome, start, end) ==
    chromosome \o <<":">> \o Dec(start) \o <<"-">> \o Dec(end)

\* char region[50]
RegionCap == 50

\* hts_parse_decimal from position i: an optional sign, then digits.
\* [val, next]: the value and the position of the first character not read.
RECURSIVE ParseDigits(_, _, _)
ParseDigits(s, i, acc) ==
    IF i <= Len(s) /\ IsDigit(s[i])
    THEN ParseDigits(s, i + 1, 10 * acc + DigitVal(s[i]))
    ELSE [val |-> acc, next |-> i]
hts_parse_decimal(s, i) ==
    IF i <= Len(s) /\ s[i] = "-"
    THEN LET r == ParseDigits(s, i + 1, 0) IN [val |-> -r.val, next |-> r.next]
    ELSE IF i <= Len(s) /\ s[i] = "+"
    THEN ParseDigits(s, i + 1, 0)
    ELSE ParseDigits(s, i, 0)

\* strrchr(s, ':'): the position of the last colon, 0 when there is none
LastColon(s) ==
    LET at == {i \in 1..Len(s) : s[i] = ":"}
    IN  IF at = {} THEN 0 ELSE CHOOSE i \in at : \A j \in at : j <= i

\* hts_parse_reg: NAME, NAME:START or NAME:START-END, 1-based inclusive, to the
\* 0-based half-open [beg, end); ok is FALSE where it returns NULL
hts_parse_reg(s) ==
    LET colon == LastColon(s) IN
    IF colon = 0
    THEN [ok |-> TRUE, name |-> s, beg |-> 0, end |-> IntMax]
    ELSE LET b == hts_parse_decimal(s, colon + 1)
             beg == IF b.val - 1 < 0 THEN 0 ELSE b.val - 1
             name == SubSeq(s, 1, colon - 1)
         IN  IF b.next > Len(s)
             THEN [ok |-> beg < IntMax, name |-> name, beg |-> beg, end |-> IntMax]
             ELSE IF s[b.next] = "-"
             THEN LET e == hts_parse_decimal(s, b.next + 1)
                  IN  [ok |-> beg < e.val, name |-> name, beg |-> beg, end |-> e.val]
             ELSE [ok |-> FALSE, name |-> name, beg |-> 0, end |-> 0]

\* bam_name2id(hdr, name): the id of the reference with exactly this name, or -1
bam_name2id(h, name) ==
    LET ids == {t \in 0..(h.n_targets - 1) : RefName(t) = name}
    IN  IF ids = {} THEN -1 ELSE CHOOSE t \in ids : TRUE

\* whether the index holds records of reference t of resource n
HasBins(d, n, t) == \E i \in 1..Len(d[n].items) : d[n].items[i].tid = t

\* hts_itr_query(idx, tid, beg, end) for tid >= 0: the set of results the codec
\* can give, each [ok, itr].  A negative beg is taken as 0, end < beg gives NULL.
\* For a reference the index holds nothing of (or an id past the dictionary) the
\* codec gives NULL or an iterator already finished, depending on its version.
hts_itr_query(d, idx, tid, beg, end) ==
    LET b == IF beg < 0 THEN 0 ELSE beg
        none == [ok |-> FALSE, itr |-> FreeObj]
    IN  IF end < b THEN {none}
        ELSE IF tid >= NRefs \/ ~HasBins(d, idx.of, tid)
        THEN {none, [ok |-> TRUE, itr |-> NewItr(idx.of, tid, b, end, TRUE)]}
        ELSE {[ok |-> TRUE, itr |-> NewItr(idx.of, tid, b, end, FALSE)]}

\* hts_itr_querys(idx, region, bam_name2id, hdr, ...): parse the region, resolve
\* the name (the whole string when it does not parse), then query
hts_itr_querys(d, idx, h, s) ==
    LET r == hts_parse_reg(s)
        tid == bam_name2id(h, IF r.ok THEN r.name ELSE s)
        beg == IF r.ok THEN r.beg ELSE 0
        end == IF r.ok THEN r.end ELSE IntMax
    IN  IF tid < 0 THEN {[ok |-> FALSE, itr |-> FreeObj]}
        ELSE hts_itr_query(d, idx, tid, beg, end)

----------------------------------------------------------------------------
(* setRegion *)

\* a variant of setRegion without the sam_itr_destroy
KeepActive(h, p) == h

\* if (file.hts_iter != nullptr) sam_itr_destroy(file.hts_iter)
DestroyActive(h, p) == IF p # nullptr THEN Release(h, p) ELSE h

\* a variant of the assignment that stores only an iterator that was found
KeptIter(old, found, new) == IF found THEN new ELSE old

\* file.hts_iter = sam_itr_query...(...): what the member holds after the query,
\* whatever it held before
StoredIter(old, found, new) == IF found THEN new ELSE nullptr

\* The three overloads share their shape: destroy the active iterator, query,
\* store the result, return whether it is non-null.  `q` is the set of results
\* the query can give ({} stands for a query that dereferences a null pointer).
SetRegionWith(f, op, nullarg, q, req) ==
    LET had == hts_iter[f] # nullptr
        twice == had /\ ~IsLive(heap, hts_iter[f])
        h1 == DestroyActive(heap, hts_iter[f])
        rel == IF had THEN <<"itr">> ELSE <<>>
    IN  IF twice \/ nullarg
        THEN /\ proc' = "crashed"
             /\ last' = Call(op, f, FALSE, 0, NoSRec, IF twice THEN <<>> ELSE rel)
             /\ heap' = IF twice THEN heap ELSE h1
             /\ leaks' = {}
             /\ UNCHANGED <<fp, hdr, hts_record, hts_index, hts_iter, region>>
        ELSE \E r \in q :
             LET i == Alloc(Ext(h1))
                 h2 == IF r.ok THEN [Ext(h1) EXCEPT ![i] = r.itr] ELSE h1
             IN  /\ Commit(h2, fp, hdr, hts_record, hts_index,
                           [hts_iter EXCEPT ![f] = StoredIter(hts_iter[f], r.ok, i)])
                 /\ proc' = proc
                 /\ last' = Call(op, f, r.ok, 0, NoSRec, rel)
                 /\ region' = [region EXCEPT ![f] =
                        IF r.ok
                        THEN [set |-> TRUE, pure |-> TRUE, done |-> FALSE, n |-> 0,
                              req |-> req]
                        ELSE NoRegion]

\* setRegion(HtsFile & file, const char * region)
setRegion(f, s) ==
    /\ Running(f)
    /\ LET nullarg == hts_index[f] = nullptr \/ hdr[f] = nullptr
           q == IF nullarg THEN {}
                ELSE hts_itr_querys(disk, heap[hts_index[f]], heap[hdr[f]], s)
       IN  SetRegionWith(f, "setRegion", nullarg, q,
                         [form |-> "region", tid |-> -1, start |-> 0, end |-> 0])
    /\ UNCHANGED <<filename, file_mode, at_end, lifetime, disk, idxfiles, sent>>

\* setRegion(HtsFile & file, const char * chromosome, int start, int end)
setRegion_name(f, chromosome, start, end) ==
    /\ Running(f)
    /\ LET s == sprintf_region(chromosome, start, end)
           overflow == Len(s) + 1 > RegionCap
           nullarg == overflow \/ hts_index[f] = nullptr \/ hdr[f] = nullptr
           q == IF nullarg THEN {}
                ELSE hts_itr_querys(disk, heap[hts_index[f]], heap[hdr[f]], s)
       IN  SetRegionWith(f, "setRegion_name", nullarg, q,
                         [form |-> "name",
                          tid |-> IF hdr[f] = nullptr THEN -1
                                  ELSE bam_name2id(heap[hdr[f]], chromosome),
                          start |-> start, end |-> end])
    /\ UNCHANGED <<filename, file_mode, at_end, lifetime, disk, idxfiles, sent>>

\* setRegion(HtsFile & file, int32_t tid, int32_t start, int32_t end)
setRegion_tid(f, tid, start, end) ==
    /\ Running(f)
    /\ LET nullarg == hts_index[f] = nullptr
           q == IF nullarg THEN {}
                ELSE hts_itr_query(disk, heap[hts_index[f]], tid, start, end)
       IN  SetRegionWith(f, "setRegion_tid", nullarg, q,
                         [form |-> "tid", tid |-> tid, start |-> start, end |-> end])
    /\ UNCHANGED <<filename, file_mode, at_end, lifetime, disk, idxfiles, sent>>

----------------------------------------------------------------------------
(* Reading *)

\* record.parse(hts_record) / parse(record, hts_record): the fields of the raw
\* record, copied out
raw_to_structured(r) == [rID |-> r.tid, beginPos |-> r.pos, endPos |-> r.end]
\* parse(hts_record, hdr, record): the raw record of a structured one
structured_to_raw(r) == [ok |-> TRUE, tid |-> r.rID, pos |-> r.beginPos, end |-> r.endPos]

Outcome(crash, status, pos, data) ==
    [crash |-> crash, status |-> status, pos |-> pos, data |-> data]

\* sam_read1(fp, hdr, b) on a stream s with buffer contents `data`: the outcomes
\* the codec can produce.  At the end of the resource: -1, nothing moves.  On a
\* malformed entry: a negative status, and the stream moves past the entry.
\* Otherwise the entry fills the buffer and the status is not negative.
sam_read1(d, s, nohdr, norec, data) ==
    LET items == d[s.name].items
        more == s.pos < Len(items)
        it == items[s.pos + 1]
        normal == IF ~more THEN Outcome(FALSE, -1, s.pos, data)
                  ELSE IF ~it.ok THEN Outcome(FALSE, -2, s.pos + 1, BadItem)
                  ELSE Outcome(FALSE, 1, s.pos + 1, it)
        crash == Outcome(TRUE, 0, s.pos, data)
        failed == Outcome(FALSE, -1, s.pos, data)
    IN  IF s.mode # "r" THEN {crash, failed}
        ELSE IF d[s.name].hdr # "ok" THEN {failed}
        ELSE IF more /\ norec THEN {crash}
        ELSE IF more /\ it.ok /\ nohdr THEN {crash, normal}
        ELSE {normal}

\* a variant in which the flag follows the last read
AtEndFollows(flags, f, status) == [flags EXCEPT ![f] = status < 0]

\* if (sam_read1(...) >= 0) return true; else file.at_end = true: the flags
\* after a read of file f that ended with `status`
AtEndAfter(flags, f, status) ==
    IF status >= 0 THEN flags ELSE [flags EXCEPT ![f] = TRUE]

\* readRecord(HtsFile & file), and with `parsed` the two overloads that parse the
\* buffer into the caller's record on success
ReadRecordWith(f, op, parsed) ==
    /\ Running(f)
    /\ IF fp[f] = nullptr
       THEN /\ Crash(op, f)
            /\ UNCHANGED <<heap, at_end, region>>
       ELSE LET s == heap[fp[f]]
                norec == hts_record[f] = nullptr
                data == IF norec THEN BlankRec ELSE heap[hts_record[f]].data
            IN  \E o \in sam_read1(disk, s, hdr[f] = nullptr, norec, data) :
                IF o.crash
                THEN /\ Crash(op, f)
                     /\ UNCHANGED <<heap, at_end, region>>
                ELSE /\ heap' = [i \in ObjIds |->
                                   IF i = fp[f] THEN [s EXCEPT !.pos = o.pos]
                                   ELSE IF i = hts_record[f]
                                        THEN [heap[i] EXCEPT !.data = o.data]
                                        ELSE heap[i]]
                     /\ at_end' = AtEndAfter(at_end, f, o.status)
                     /\ proc' = proc
                     /\ last' = Call(op, f, o.status >= 0, o.status,
                                     IF parsed /\ o.status >= 0
                                     THEN raw_to_structured(o.data) ELSE NoSRec, <<>>)
                     /\ region' = [region EXCEPT ![f].pure = FALSE]
    /\ UNCHANGED <<filename, fp, hdr, hts_record, hts_index, hts_iter, file_mode,
                   lifetime, disk, idxfiles, sent>>
    /\ leaks' = {}

readRecord(f) == ReadRecordWith(f, "readRecord", FALSE)
\* readRecord(HtsSequenceRecord & record, HtsFile & file)
readRecord_seq(f) == ReadRecordWith(f, "readRecord_seq", TRUE)
\* readRecord(BamAlignmentRecord & record, HtsFile & file)
readRecord_bam(f) == ReadRecordWith(f, "readRecord_bam", TRUE)

\* atEnd(HtsFileIn const & file): return file.at_end
atEnd(f) ==
    /\ Running(f)
    /\ file_mode[f] = ClassMode("HtsFileIn")
    /\ last' = Call("atEnd", f, at_end[f], 0, NoSRec, <<>>)
    /\ SameHeap
    /\ UNCHANGED <<filename, file_mode, at_end, lifetime, disk, idxfiles, proc, sent,
                   region>>

\* the first entry of `items` at or after position p (0-based) that is on the
\* iterator's reference and overlaps its interval; Len(items) when there is none
Overlaps(it, itr) == it.ok /\ it.tid = itr.tid /\ it.end > itr.beg /\ itr.end > it.pos
FirstHit(items, itr) ==
    LET hits == {i \in 1..Len(items) : Overlaps(items[i], itr)}
    IN  IF hits = {} THEN Len(items) ELSE (CHOOSE i \in hits : \A j \in hits : i <= j) - 1

\* hts_itr_next's loop from position p: read entries until one overlaps (it is
\* delivered), one lies past the interval or on another reference (the iterator
\* is finished), one is malformed, or the resource ends
RECURSIVE Scan(_, _, _, _)
Scan(items, p, itr, data) ==
    IF p >= Len(items) THEN [status |-> -1, pos |-> p, data |-> data, finished |-> TRUE]
    ELSE LET it == items[p + 1] IN
         IF ~it.ok
         THEN [status |-> -2, pos |-> p + 1, data |-> BadItem, finished |-> TRUE]
         ELSE IF it.tid # itr.tid \/ it.pos >= itr.end
         THEN [status |-> -1, pos |-> p + 1, data |-> it, finished |-> TRUE]
         ELSE IF it.end > itr.beg /\ itr.end > it.pos
         THEN [status |-> 1, pos |-> p + 1, data |-> it, finished |-> FALSE]
         ELSE Scan(items, p + 1, itr, it)

\* sam_itr_next(fp, iter, b): -1 on a null or finished iterator; the first call
\* seeks to where the index places the region; an iterator built for another
\* resource, or a stream not open for reading, fails to seek
sam_itr_next(d, s, itr, data) ==
    LET items == d[s.name].items IN
    IF itr.finished
    THEN [status |-> -1, pos |-> s.pos, data |-> data, finished |-> TRUE]
    ELSE IF s.mode # "r" \/ itr.of # s.name \/ d[s.name].hdr # "ok"
    THEN [status |-> -2, pos |-> s.pos, data |-> data, finished |-> TRUE]
    ELSE IF ~itr.started /\ FirstHit(items, itr) = Len(items)
    THEN [status |-> -1, pos |-> s.pos, data |-> data, finished |-> TRUE]
    ELSE Scan(items, IF itr.started THEN s.pos ELSE FirstHit(items, itr), itr, data)

\* a variant of readRegion that sets the flag when sam_itr_next fails
AtEndOnRegionEnd(flags, f, status) ==
    IF status >= 0 THEN flags ELSE [flags EXCEPT ![f] = TRUE]

\* if (sam_itr_next(...) >= 0) ... return true; else return false: the flags
\* after a readRegion of file f that ended with `status`
AtEndAfterRegion(flags, f, status) == flags

\* readRegion(HtsSequenceRecord & record, HtsFile & file)
readRegion(f) ==
    /\ Running(f)
    /\ IF fp[f] = nullptr
       THEN /\ Crash("readRegion", f)
            /\ UNCHANGED <<heap, region, at_end>>
       ELSE IF hts_iter[f] = nullptr
       THEN /\ proc' = proc
            /\ last' = Call("readRegion", f, FALSE, -1, NoSRec, <<>>)
            /\ region' = [region EXCEPT ![f].done = region[f].set]
            /\ at_end' = AtEndAfterRegion(at_end, f, -1)
            /\ UNCHANGED heap
       ELSE LET s == heap[fp[f]]
                itr == heap[hts_iter[f]]
                norec == hts_record[f] = nullptr
                data == IF norec THEN BlankRec ELSE heap[hts_record[f]].data
                o == sam_itr_next(disk, s, itr, data)
            IN  IF norec /\ o.pos # s.pos
                THEN /\ Crash("readRegion", f)
                     /\ UNCHANGED <<heap, region, at_end>>
                ELSE /\ heap' = [i \in ObjIds |->
                                   IF i = fp[f] THEN [s EXCEPT !.pos = o.pos]
                                   ELSE IF i = hts_record[f]
                                        THEN [heap[i] EXCEPT !.data = o.data]
                                        ELSE IF i = hts_iter[f]
                                             THEN [itr EXCEPT !.started = TRUE,
                                                              !.finished = o.finished]
                                             ELSE heap[i]]
                     /\ proc' = proc
                     /\ at_end' = AtEndAfterRegion(at_end, f, o.status)
                     /\ last' = Call("readRegion", f, o.status >= 0, o.status,
                                     IF o.status >= 0 THEN raw_to_structured(o.data)
                                     ELSE NoSRec, <<>>)
                     /\ region' = [region EXCEPT ![f] =
                            IF o.status >= 0
                            THEN [@ EXCEPT !.n = IF region[f].pure THEN @ + 1 ELSE @]
                            ELSE [@ EXCEPT !.done = TRUE]]
    /\ UNCHANGED <<filename, fp, hdr, hts_record, hts_index, hts_iter, file_mode,
                   lifetime, disk, idxfiles, sent>>
    /\ leaks' = {}

----------------------------------------------------------------------------
(* Writing *)

\* the statuses a codec write can end with: -1 for a failed write, 0 or the
\* number of bytes written (1 stands for any positive count) for a successful one
WriteStatuses == {-1, 0, 1}

\* sam_hdr_write(fp, hdr) on a write stream: 0 and the header buffered, or -1.
\* A header that is not the first thing written leaves a resource no reader
\* can take a header from.
sam_hdr_write(s, st) ==
    IF st < 0 THEN s
    ELSE [s EXCEPT !.whdr = (~s.whdr /\ s.wbuf = <<>>)]

\* writeHeader(HtsFileOut & file): !sam_hdr_write(file.fp, file.hdr)
writeHeader(f) ==
    /\ Running(f)
    /\ file_mode[f] = ClassMode("HtsFileOut")
    /\ IF fp[f] = nullptr \/ hdr[f] = nullptr
       THEN \* a null stream or header: the codec dereferences it, or (newer
            \* versions) answers -1
            /\ \/ Crash("writeHeader", f)
               \/ /\ proc' = proc
                  /\ last' = Call("writeHeader", f, FALSE, -1, NoSRec, <<>>)
            /\ UNCHANGED heap
       ELSE \E st \in {-1, 0} :
            /\ heap' = [heap EXCEPT ![fp[f]] = sam_hdr_write(@, st)]
            /\ proc' = proc
            /\ last' = Call("writeHeader", f, st = 0, st, NoSRec, <<>>)
    /\ UNCHANGED <<filename, fp, hdr, hts_record, hts_index, hts_iter, file_mode,
                   at_end, lifetime, disk, idxfiles, sent, region>>
    /\ leaks' = {}

\* sam_write1(fp, hdr, b) on a write stream: the record joins what is buffered
\* unless the write failed
sam_write1(s, data, st) ==
    IF st < 0 THEN s ELSE [s EXCEPT !.wbuf = Append(@, data)]

\* a variant of the record overload that writes the buffer as it stands
BufferAsIs(given, record, buffered) == buffered

\* parse(file.hts_record, file.hdr, record) of the record overload: what the
\* buffer holds when it is written
WriteData(given, record, buffered) ==
    IF given THEN structured_to_raw(record) ELSE buffered

\* writeRecord(HtsFile & file): !sam_write1(file.fp, file.hdr, file.hts_record).
\* `given` is whether the caller's record is first parsed into the buffer
\* (writeRecord(HtsFile &, BamAlignmentRecord const &)).  `sent` keeps the
\* record the caller asked to be written.
WriteRecordWith(f, op, given, record) ==
    /\ Running(f)
    /\ LET \* the codec dereferences the stream and the buffer
           mustCrash == fp[f] = nullptr \/ hts_record[f] = nullptr
           \* parsing with a null header, or writing to a stream opened for
           \* reading, is undefined: the call may crash or go on
           mayCrash == IF mustCrash THEN TRUE
                       ELSE (given /\ hdr[f] = nullptr) \/ heap[fp[f]].mode = "r"
       IN  \/ /\ mayCrash
              /\ Crash(op, f)
              /\ UNCHANGED <<heap, sent>>
           \/ /\ ~mustCrash
              /\ LET s == heap[fp[f]]
                     data == WriteData(given, record, heap[hts_record[f]].data)
                     asked == IF given THEN record
                              ELSE raw_to_structured(heap[hts_record[f]].data)
                 IN  \E st \in (IF s.mode = "r" THEN {-1} ELSE WriteStatuses) :
                     /\ s.mode = "r" \/ Len(sent[f]) < MaxWrites
                     /\ heap' = [i \in ObjIds |->
                                   IF i = fp[f] THEN sam_write1(s, data, st)
                                   ELSE IF i = hts_record[f]
                                        THEN [heap[i] EXCEPT !.data = data]
                                        ELSE heap[i]]
                     /\ proc' = proc
                     /\ last' = Call(op, f, st = 0, st, NoSRec, <<>>)
                     /\ sent' = IF s.mode = "r" THEN sent
                                ELSE [sent EXCEPT ![f] =
                                        Append(@, [rec |-> asked, status |-> st])]
    /\ UNCHANGED <<filename, fp, hdr, hts_record, hts_index, hts_iter, file_mode,
                   at_end, lifetime, disk, idxfiles, region>>
    /\ leaks' = {}

writeRecord(f) == WriteRecordWith(f, "writeRecord", FALSE, NoSRec)
\* writeRecord(HtsFile & file, BamAlignmentRecord const & record)
writeRecord_rec(f, record) == WriteRecordWith(f, "writeRecord_rec", TRUE, record)

----------------------------------------------------------------------------
(* The specifications *)

\* HtsFileIn() or HtsFileOut() for "file", HtsFileIn() for "other": both
\* constructed empty.  The input resource holds one of `contents`.
InitWith(classes, contents) ==
    /\ filename = [f \in Files |-> DefaultName]
    /\ fp = [f \in Files |-> nullptr]
    /\ hdr = [f \in Files |-> nullptr]
    /\ hts_record = [f \in Files |-> nullptr]
    /\ hts_index = [f \in Files |-> nullptr]
    /\ hts_iter = [f \in Files |-> nullptr]
    /\ \E c \in classes :
         file_mode = [f \in Files |-> IF f = "file" THEN ClassMode(c)
                                     ELSE ClassMode("HtsFileIn")]
    /\ at_end = [f \in Files |-> FALSE]
    /\ lifetime = [f \in Files |-> "constructed"]
    /\ heap = [i \in ObjIds |-> FreeObj]
    /\ leaks = {}
    /\ \E c \in contents :
         disk = [n \in Names |-> IF n = InName THEN c ELSE NoFile]
    /\ idxfiles = [i \in IdxNames |-> NoRes]
    /\ proc = "running"
    /\ last = Call("construct", "file", TRUE, 0, NoSRec, <<>>)
    /\ sent = [f \in Files |-> <<>>]
    /\ region = [f \in Files |-> NoRegion]

\* the names open is called with: a reader opens the input resource, a writer
\* the output resource, or a path that cannot be opened
OpenNames(f) ==
    IF file_mode[f] = "r" THEN {InName, Missing} ELSE {OutName, Missing}

\* Spec: the life of one file object.  Every function of the header is called
\* on "file", in any order; "other" is opened on the input resource and is the
\* other object of copyHeader and copyRecord.
Contents ==
    {Resource("bad", <<>>),
     Resource("ok", <<Rec(0, 0, 1)>>),
     Resource("ok", <<Rec(0, 0, 1), BadItem, Rec(0, 1, RefLen)>>)}

Init == InitWith(Classes, Contents)

Next ==
    \/ \E n \in OpenNames("file") : open("file", n)
    \/ fp["other"] = nullptr /\ open("other", InName)
    \/ HtsFile_dtor("file")
    \/ copyHeader("file", "other")
    \/ copyRecord("file", "other")
    \/ buildIndex("file", 0)
    \/ loadIndex("file")
    \/ \E s \in {RefName(0), NoSuchName} : setRegion("file", s)
    \/ \E c \in {RefName(0), NoSuchName} : setRegion_name("file", c, 1, RefLen)
    \/ \E t \in {0, NRefs} : setRegion_tid("file", t, 1, RefLen)
    \/ atEnd("file")
    \/ readRecord("file")
    \/ readRegion("file")
    \/ writeHeader("file")
    \/ writeRecord("file")

Spec == Init /\ [][Next]_vars

----------------------------------------------------------------------------
(* Properties of Spec *)

SetRegionOps == {"setRegion", "setRegion_name", "setRegion_tid"}

\* the last call was `op` on f and it returned
Returned(op, f) == last.op = op /\ last.f = f /\ proc = "running"

\* C1: whichever setRegion overload runs, an iterator active before the call is
\* destroyed by it (released, not leaked), and when the call returns false the
\* file holds no iterator (hts_iter is null) even if one was active before.
C1_SetRegionDropsIterator ==
    [][\A f \in Files :
         (last'.op \in SetRegionOps /\ last'.f = f) =>
            /\ hts_iter[f] # nullptr =>
                  (last'.released = <<"itr">> /\ "itr" \notin leaks')
            /\ (proc' = "running" /\ ~last'.ret) => hts_iter'[f] = nullptr]_vars

\* a setRegion that found an iterator active, destroyed it and returned false
C1_Witness ==
    /\ last.op \in SetRegionOps /\ proc = "running" /\ ~last.ret
    /\ last.released = <<"itr">>
    /\ hts_iter[last.f] = nullptr

\* C2: on a file opened in read mode, a readRecord that follows a readRecord
\* that returned false returns false too, and the flag is set after it.
C2_IdempotentExhaustion ==
    [][\A f \in Files :
         (/\ file_mode[f] = read_mode
          /\ Returned("readRecord", f) /\ ~last.ret
          /\ last'.op = "readRecord" /\ last'.f = f /\ proc' = "running")
         => (~last'.ret /\ at_end'[f])]_vars

StickyOps ==
    SetRegionOps \cup {"readRecord", "readRegion", "loadIndex", "buildIndex",
                       "copyHeader", "copyRecord", "writeHeader", "writeRecord"}

\* C3: once at_end is true it stays true through every readRecord, readRegion,
\* setRegion, loadIndex, buildIndex, copyHeader, copyRecord, writeHeader and
\* writeRecord call; atEnd returns the flag and changes nothing of the file.
C3_AtEndSticky ==
    [][/\ \A f \in Files :
            (at_end[f] /\ last'.op \in StickyOps) => at_end'[f]
       /\ last'.op = "atEnd" =>
            /\ last'.ret = at_end[last'.f]
            /\ UNCHANGED <<filename, fp, hdr, hts_record, hts_index, hts_iter,
                           file_mode, at_end, lifetime, heap, disk, idxfiles,
                           proc, sent, region>>]_vars

\* a read that succeeded on a file whose flag was set, the flag still set
C3_Witness ==
    /\ Returned("readRecord", "file") /\ last.ret
    /\ at_end["file"]

\* C4: after every open that returns true on a read-mode file the header is
\* set; a write-mode file's header goes from unset to set only by copyHeader.
C4_OpenLoadsHeader ==
    /\ [](\A f \in Files :
            (Returned("open", f) /\ last.ret /\ file_mode[f] = read_mode)
                => hdr[f] # nullptr)
    /\ [][\A f \in Files :
            (file_mode[f] # read_mode /\ hdr[f] = nullptr /\ hdr'[f] # nullptr)
                => last'.op = "copyHeader"]_vars

\* C9: the destructor of a file that was never opened runs to its end.
C9_TeardownNeverOpened ==
    \A f \in Files :
        (last.op = "~HtsFile" /\ last.f = f /\ filename[f] = DefaultName)
            => (proc = "running" /\ lifetime[f] = "destroyed")

\* C10: open either returns true, with a stream and a record buffer allocated,
\* or aborts with header, buffer and heap as they were; it never returns false;
\* and while the process has not aborted, a constructed file's stream handle
\* is non-null exactly if an open on it has returned.
C10_OpenTwoOutcomes ==
    /\ [](\A f \in Files :
            /\ (last.op = "open" /\ last.f = f) =>
                  \/ proc = "aborted" /\ fp[f] = nullptr
                  \/ /\ proc = "running" /\ last.ret
                     /\ IsLive(heap, fp[f]) /\ IsLive(heap, hts_record[f])
            /\ (proc # "aborted" /\ lifetime[f] = "constructed") =>
                  (fp[f] # nullptr <=> filename[f] # DefaultName))
    /\ [][(last'.op = "open" /\ proc' = "aborted")
            => UNCHANGED <<hdr, hts_record, heap>>]_vars

\* an open that returned, with the stream and the record buffer it allocated
C10_Witness ==
    /\ Returned("open", "file") /\ last.ret
    /\ IsLive(heap, fp["file"]) /\ IsLive(heap, hts_record["file"])

\* C11: on an opened file with its header, while no index is loaded
\* (hts_index is null: no loadIndex yet, or the last one returned false), every
\* setRegion overload returns false and leaves no iterator.
C11_NoIndexNoRegion ==
    [][\A f \in Files :
         (/\ last'.op \in SetRegionOps /\ last'.f = f
          /\ fp[f] # nullptr /\ hdr[f] # nullptr /\ hts_index[f] = nullptr)
         => (proc' = "running" /\ ~last'.ret /\ hts_iter'[f] = nullptr)]_vars

HeaderOps == {"writeHeader", "writeRecord", "readRecord", "setRegion", "setRegion_name"}

\* C12: while the header of a file is null, writeHeader, writeRecord,
\* readRecord and the name-based setRegion calls on it return, and return false.
C12_NullHeaderFailsCleanly ==
    [][(last'.op \in HeaderOps /\ hdr[last'.f] = nullptr)
         => (proc' = "running" /\ ~last'.ret)]_vars

\* the iterators of the heap that are allocated
LiveIters == {i \in ObjIds : heap[i].kind = "itr" /\ heap[i].live}

\* C15: through open, loadIndex, setRegion, readRegion and readRecord calls a
\* file has at most one iterator allocated, the one hts_iter points to; no
\* call leaves an iterator allocated and unreferenced, and the iterator
\* hts_iter points to has not been destroyed.
C15_SingleActiveIterator ==
    (proc = "running" /\ last.op # "~HtsFile") =>
        /\ "itr" \notin leaks
        /\ \A f \in Files : hts_iter[f] # nullptr => IsLive(heap, hts_iter[f])
        /\ LiveIters \subseteq {hts_iter[f] : f \in Files}
        /\ Cardinality(LiveIters) <= 1

\* a setRegion that replaced an active iterator by a new one
C15_Witness ==
    /\ last.op \in SetRegionOps /\ proc = "running" /\ last.ret
    /\ last.released = <<"itr">>
    /\ LiveIters = {hts_iter[last.f]}

\* the calls that assign or fill the record buffer of a file
RecordOps == {"open", "copyRecord", "readRecord", "readRecord_seq",
              "readRecord_bam", "readRegion", "writeRecord", "writeRecord_rec"}

\* C16: after any sequence of open, reopen, copyRecord, read and write calls
\* no earlier record buffer of a file is left allocated and unreferenced:
\* no such call leaks a record buffer.
C16_SingleRecordBuffer ==
    (last.op \in RecordOps /\ proc = "running") => "rec" \notin leaks

\* C17: a teardown that returns has released every resource the file owned
\* (header, stream, record buffer, index, iterator): it leaks nothing.
C17_TeardownReleasesAll ==
    (last.op = "~HtsFile" /\ proc = "running") => leaks = {}

\* C18: right after a successful open in read mode, atEnd is false, also
\* when the file was read to exhaustion before it was reopened.
C18_OpenClearsAtEnd ==
    \A f \in Files :
        (Returned("open", f) /\ last.ret /\ file_mode[f] = read_mode)
            => ~at_end[f]

\* the readRecord overloads
ReadRecordOps == {"readRecord", "readRecord_seq", "readRecord_bam"}

\* C19: a readRegion call, whether it returns true or false, leaves at_end
\* of every file as it was; the only call that sets at_end of a file is a
\* readRecord on that file that returns false.
C19_ReadRegionKeepsAtEnd ==
    [][/\ last'.op = "readRegion" => at_end' = at_end
       /\ \A f \in Files :
            (~at_end[f] /\ at_end'[f]) =>
                (last'.op \in ReadRecordOps /\ last'.f = f /\ ~last'.ret)]_vars

\* a region was read to its end and atEnd is still false
C19_Witness ==
    /\ Returned("readRegion", "file") /\ ~last.ret
    /\ hts_iter["file"] # nullptr /\ region["file"].set /\ region["file"].done
    /\ ~at_end["file"]

----------------------------------------------------------------------------
(* SpecRegion: region queries on one indexed input file.  The index is kept *)
(* either in the conventional companion file or in a file named by the     *)
(* caller.                                                                 *)

\* the records the input resource is made of
RegionRecs == {Rec(0, 0, 1), Rec(0, RefLen - 1, RefLen), Rec(1, 0, 1)}
RegionContents ==
    {Resource("ok", s) : s \in {q \in SeqsUpTo(RegionRecs, MaxRecs) : Sorted(q)}}

InitRegion == InitWith({"HtsFileIn"}, RegionContents)

\* the regions asked for, <<reference, start, end>>: every interval of the
\* first reference, and each reference as a whole
Queries ==
    {<<0, pe[1], pe[2]>> : pe \in Intervals} \cup {<<t, 0, RefLen>> : t \in Refs}

NextRegion ==
    \/ fp["file"] = nullptr /\ open("file", InName)
    \/ idxfiles[AltIdx] = NoRes /\ buildIndex("file", 0)
    \/ idxfiles[AltIdx] = NoRes /\ loadIndex("file")
    \/ idxfiles[IdxOf(InName)] = NoRes /\ buildIndex2("file", AltIdx, 0)
    \/ idxfiles[IdxOf(InName)] = NoRes /\ loadIndex2("file", AltIdx)
    \/ \E s \in {RefName(0), NoSuchName} : setRegion("file", s)
    \/ \E q \in Queries : setRegion_name("file", RefName(q[1]), q[2], q[3])
    \/ \E t \in Refs : setRegion_tid("file", t, 1, RefLen)
    \/ readRegion("file")

SpecRegion == InitRegion /\ [][NextRegion]_vars

\* the records of resource n that overlap [b, e) on reference t, in file order
Expected(n, t, b, e) ==
    SelectSeq(disk[n].items,
              LAMBDA it : it.ok /\ it.tid = t /\ it.pos < e /\ it.end > b)

\* the raw record in the buffer of f, which a readRegion that returned true
\* has just delivered
Delivered(f) == heap[hts_record[f]].data

\* C5: after setRegion(file, name, start, end) returned true, every record a
\* readRegion delivers lies on the named reference and overlaps the 0-based
\* half-open [start, end), and no more records are delivered than the file holds
\* (the run of readRegion calls ends with one that returns false).
C5_NameRegionOverlap ==
    \A f \in Files :
        (region[f].set /\ region[f].req.form = "name" /\ Returned("readRegion", f)) =>
            /\ last.ret =>
                  /\ Delivered(f).tid = region[f].req.tid
                  /\ Delivered(f).pos < region[f].req.end
                  /\ Delivered(f).end > region[f].req.start
            /\ region[f].n <= Len(disk[filename[f]].items)

\* C6: with an index built from the file and loaded, setRegion(name, 0, L) on a
\* reference of length L followed by readRegion calls delivers, in file order,
\* exactly the records of that reference, and returns false only after them.
C6_WholeReferenceCoverage ==
    \A f \in Files :
        LET r == region[f]
            want == Expected(filename[f], r.req.tid, 0, RefLen)
        IN  (/\ r.set /\ r.pure /\ r.req.form = "name"
             /\ r.req.start = 0 /\ r.req.end = RefLen
             /\ Returned("readRegion", f)) =>
                IF last.ret
                THEN r.n <= Len(want) /\ Delivered(f) = want[r.n]
                ELSE r.n = Len(want)

\* a whole-reference region read to its end, with as many records delivered
\* as the file can hold
C6_Witness ==
    LET r == region["file"]
    IN  /\ r.set /\ r.pure /\ r.req.form = "name"
        /\ r.req.start = 0 /\ r.req.end = RefLen
        /\ Returned("readRegion", "file") /\ ~last.ret
        /\ r.n = MaxRecs
        /\ Len(disk[InName].items) = MaxRecs

\* C20: for a name the header resolves to id t and start <= end,
\* setRegion(file, name, start, end) gives what setRegion(file, t, start, end)
\* gives: when the name form has returned true, the iterator it stored is one
\* the id form can store for the same arguments (same reference, same
\* interval, hence the same records delivered).
C20_NameAndIdAgree ==
    \A f \in Files :
        LET req == region[f].req
        IN  (/\ Returned("setRegion_name", f) /\ last.ret
             /\ req.tid >= 0 /\ req.start <= req.end) =>
                \E r \in hts_itr_query(disk, heap[hts_index[f]],
                                       req.tid, req.start, req.end) :
                    r.ok /\ r.itr = heap[hts_iter[f]]

----------------------------------------------------------------------------
(* SpecWrite: a file is written, closed, and read back *)

WriteContents == {Resource("ok", <<Rec(1, 0, RefLen)>>)}
\* the record the caller hands to writeRecord(file, record)
Given == raw_to_structured(Rec(0, RefLen - 1, RefLen))

InitWrite == InitWith({"HtsFileOut"}, WriteContents)

NextWrite ==
    \/ fp["other"] = nullptr /\ open("other", InName)
    \/ fp["file"] = nullptr /\ open("file", OutName)
    \/ readRecord_bam("other")
    \/ copyHeader("file", "other")
    \/ copyRecord("file", "other")
    \/ writeHeader("file")
    \/ writeRecord("file")
    \/ writeRecord_rec("file", Given)
    \/ \E f \in Files : HtsFile_dtor(f)
    \/ lifetime["file"] = "destroyed" /\ filename["other"] = InName
         /\ open("other", OutName)
    \/ filename["other"] = OutName /\ readRecord_seq("other")

SpecWrite == InitWrite /\ [][NextWrite]_vars

\* every write the codec was asked for since open succeeded
WroteAll(f) == \A i \in 1..Len(sent[f]) : sent[f][i].status >= 0

\* the written file is closed, its header went out first, and it is being
\* read back
ReadBack ==
    /\ lifetime["file"] = "destroyed"
    /\ disk[OutName].hdr = "ok"
    /\ WroteAll("file")
    /\ Returned("readRecord_seq", "other") /\ filename["other"] = OutName

C8_WriteRecordReportsSuccess ==
    (last.op \in {"writeRecord", "writeRecord_rec"} /\ proc = "running")
        => (last.ret <=> last.status >= 0)

\* C13: copyHeader gives the target a header object of its own: two files
\* never hold the same header object, every header a file holds is allocated,
\* and a teardown releases the header of its file, which nobody released
\* before, whichever file is torn down first.
C13_HeaderCopyIndependent ==
    /\ [](proc = "running" =>
            \A f \in Files :
                (lifetime[f] = "constructed" /\ hdr[f] # nullptr) =>
                    /\ IsLive(heap, hdr[f])
                    /\ \A g \in Files \ {f} : hdr[g] # hdr[f])
    /\ [][(last'.op = "~HtsFile" /\ hdr[last'.f] # nullptr) =>
            /\ IsLive(heap, hdr[last'.f])
            /\ \E i \in 1..Len(last'.released) : last'.released[i] = "hdr"]_vars

\* the reader torn down after the writer, each releasing its own header; the
\* writer's header was a copy of the reader's and was written out
C13_Witness ==
    /\ Returned("~HtsFile", "other") /\ last.released = <<"hdr", "fp">>
    /\ lifetime["file"] = "destroyed" /\ lifetime["other"] = "destroyed"
    /\ disk[OutName].hdr = "ok"

\* C14: a teardown releases the header before it closes the stream, and no
\* call is made on a file once it is torn down.
C14_HeaderBeforeStream ==
    [][/\ (last'.op = "~HtsFile" /\ proc' = "running") =>
            last'.released = (IF hdr[last'.f] # nullptr THEN <<"hdr", "fp">>
                              ELSE <<"fp">>)
       /\ \A f \in Files :
            lifetime[f] = "destroyed" => (last'.f # f /\ lifetime'[f] = "destroyed")]_vars

\* the teardown of a writer that held a header
C14_Witness ==
    /\ Returned("~HtsFile", "file") /\ last.released = <<"hdr", "fp">>
    /\ lifetime["file"] = "destroyed"

====
